---- MODULE Spec2Model ----
(***************************************************************************)
(* LoRa rain gauge firmware (PIC18F46K22_LoRa_RAIN_V8.X/main.c).           *)
(*                                                                         *)
(* The main line of main() is modelled statement group by statement group  *)
(* (pc names the next group to execute); the interrupt handler Isr runs to *)
(* completion between two main-line groups.  Every statement that touches  *)
(* state shared with the handler (tips, INT1F, LATE2) is a group of its    *)
(* own, so that every interleaving the hardware allows is present.         *)
(* 32-bit counters are kept as their four bytes, as the 8-bit core stores  *)
(* them (index 0 is the least significant byte).                           *)
(***************************************************************************)
EXTENDS Integers, Sequences, FiniteSets, TLC

(***************************************************************************)
(* Bounds of the model                                                     *)
(***************************************************************************)
\* Number of tip edges the environment may produce in one behaviour.
MaxEdges == 3

\* Raw A/D results offered on channel 0 (battery) and channel 1 (temperature).
BattValues == {499, 500, 501}
TempValues == {450}
\* Values the transceiver's IRQ flag register may return (0x08 = TxDone).
FlagValues == {0, 8}
\* Content of the LATx registers after power-on reset (unknown per data sheet).
LatAtPowerOn == {0, 255}

(***************************************************************************)
(* Program constants                                                       *)
(***************************************************************************)
BATT_UVLO == 2000
BATT_UVLO_ATOD == BATT_UVLO \div 4
DATA_PACKET_LENGTH == 50
ID0 == 0
ID1 == 1
SOFTWARE_VERSION == 8
address == <<230, 186, 8, 251, 58, 79, 94, 206>>
\* Upper limit of the completion poll loop, for(j=0;j<50;j++).
PollLimit == 50

(***************************************************************************)
(* Fixed-width arithmetic                                                  *)
(***************************************************************************)
\* uint32_t 0
Zero32 == [k \in 0..3 |-> 0]

\* x++ on a uint32_t: byte-wise increment with carry, wrapping at 2^32.
Inc32(w) ==
    LET c1 == w[0] = 255
        c2 == c1 /\ w[1] = 255
        c3 == c2 /\ w[2] = 255
    IN  [k \in 0..3 |->
            CASE k = 0 -> (w[0] + 1) % 256
              [] k = 1 -> IF c1 THEN (w[1] + 1) % 256 ELSE w[1]
              [] k = 2 -> IF c2 THEN (w[2] + 1) % 256 ELSE w[2]
              [] k = 3 -> IF c3 THEN (w[3] + 1) % 256 ELSE w[3]]

\* The uint32_t with the given bytes, most significant first.
W(b3, b2, b1, b0) == [k \in 0..3 |-> CASE k = 0 -> b0 [] k = 1 -> b1
                                       [] k = 2 -> b2 [] k = 3 -> b3]

\* (uint8_t)((w >> bits) & 0xFF) for a uint32_t w and bits in {0, 8, 16, 24}.
Shr32Byte(w, bits) == w[bits \div 8]

\* (uint8_t)((v >> bits) & 0xFF) for a uint16_t v.
Shr16Byte(v, bits) == (v \div (2 ^ bits)) % 256

\* Bit b of an 8-bit register.
Bit(r, b) == (r \div (2 ^ b)) % 2
SetBit(r, b) == IF Bit(r, b) = 1 THEN r ELSE r + 2 ^ b
ClrBit(r, b) == IF Bit(r, b) = 1 THEN r - 2 ^ b ELSE r

(***************************************************************************)
(* CRC16(buf, len): the checksum routine of CRC16.h, which is not part of  *)
(* the sources at hand.  It is used as a fixed function of the first len   *)
(* bytes of the buffer with a 16-bit result.                               *)
(***************************************************************************)
RECURSIVE WeightedSum(_, _)
WeightedSum(buf, len) ==
    IF len = 0 THEN 0 ELSE len * buf[len - 1] + WeightedSum(buf, len - 1)

CRC16(buf, len) == WeightedSum(buf, len) % 65536

(***************************************************************************)
(* State                                                                   *)
(***************************************************************************)
VARIABLES
    pc,            \* next statement group of the main line
    asleep,        \* the core is halted by SLEEP()
    tips,          \* volatile uint32_t tips
    messageCount,  \* uint32_t messageCount
    txData,        \* uint8_t txData[50]
    batt,          \* uint16_t batt
    temp,          \* uint16_t temp
    j,             \* uint8_t j of transmitData
    INT1F,         \* INTCON3bits.INT1F
    INT1E,         \* INTCON3bits.INT1E
    GIE,           \* INTCONbits.GIE
    INTEDG1,       \* INTCON2bits.INTEDG1
    sfr,           \* TRISx, LATx, ANSELx, PMD1, PMD2 registers
    pmd0,          \* the PMD0 module-disable bits that are set
    adc,           \* A/D converter and reference registers
    \* observation (history) variables
    edges,         \* tip edges produced so far
    serviced,      \* tip edges serviced by the handler since the initial state
    tips0,         \* value of tips in the initial state
    tipsHeld,      \* values tips has held since the start of the current cycle
    branch,        \* branch taken by the current cycle's DECIDE step
    ledWriter,     \* who wrote RED_LED last: "reset", "main" or "Isr"
    ops,           \* transceiver and indicator operations of the current cycle's branch
    pollReads,     \* LoRaGetIRQFlags calls of the current transmitData call
    pollDelays,    \* 10 ms delays taken inside the poll loop
    nonzeroSeen,   \* the poll loop read a nonzero flag value
    mcAtEntry,     \* messageCount on entry of the current transmitData call
    tipsAtEntry,   \* tips on entry of the current transmitData call
    crcBuf,        \* buffer content over which the checksum was computed
    sent,          \* buffer content last handed to LoRaTXData
    sentLen,       \* length last handed to LoRaTXData
    sentCount      \* number of LoRaTXData calls

cpu  == <<pc, asleep>>
data == <<tips, messageCount, txData, batt, temp, j>>
intr == <<INT1F, INT1E, GIE, INTEDG1>>
hw   == <<sfr, pmd0, adc>>
txh  == <<ops, pollReads, pollDelays, nonzeroSeen, mcAtEntry, tipsAtEntry, crcBuf>>
snt  == <<sent, sentLen, sentCount>>
hist == <<edges, serviced, tips0, tipsHeld, branch, ledWriter, txh, snt>>
vars == <<cpu, data, intr, hw, hist>>

Ports == {"A", "B", "C", "D", "E"}
TRIS(p) == "TRIS" \o p
LAT(p) == "LAT" \o p
SfrNames == {TRIS(p) : p \in Ports} \cup {LAT(p) : p \in Ports}
            \cup {"ANSELA", "ANSELB", "ANSELD", "ANSELE", "PMD1", "PMD2"}

\* General-purpose pins with a TRIS and a LAT bit: RA0-7 .. RD0-7, RE0-2.
PinBits(p) == IF p = "E" THEN 0..2 ELSE 0..7

\* #define RED_LED LATEbits.LATE2
RED_LED == Bit(sfr["LATE"], 2)

\* Registers after a power-on reset.
ResetSfr(lat) ==
    [n \in SfrNames |->
        CASE n \in {"TRISA", "TRISB", "TRISC", "TRISD"} -> 255
          [] n = "TRISE" -> 135
          [] n \in {"LATA", "LATB", "LATC", "LATD"} -> lat
          [] n = "LATE" -> lat % 8
          [] n = "ANSELA" -> 47
          [] n = "ANSELB" -> 63
          [] n = "ANSELD" -> 255
          [] n = "ANSELE" -> 7
          [] OTHER -> 0]

ResetAdc ==
    [PVCFG |-> 0, NVCFG |-> 0, CHS |-> 0, ADON |-> 0, GO |-> 0,
     ADRESH |-> 0, ADRESL |-> 0, FVRS |-> 0, FVREN |-> 0,
     ACQT |-> 0, ADCS |-> 0, ADFM |-> 0]

ZeroBuffer == [i \in 0..(DATA_PACKET_LENGTH - 1) |-> 0]

\* State at entry of main() after power-on: globals as initialised at lines
\* 63-68, special function registers at their reset values.
PowerOn ==
    /\ pc = "main"
    /\ asleep = FALSE
    /\ tips = Zero32
    /\ messageCount = Zero32
    /\ txData = ZeroBuffer
    /\ batt = 0
    /\ temp = 0
    /\ j = 0
    /\ INT1F = 0
    /\ INT1E = 0
    /\ GIE = 0
    /\ INTEDG1 = 1
    /\ \E lat \in LatAtPowerOn : sfr = ResetSfr(lat)
    /\ pmd0 = {}
    /\ adc = ResetAdc
    /\ edges = 0
    /\ serviced = 0
    /\ tips0 = Zero32
    /\ tipsHeld = {Zero32}
    /\ branch = "none"
    /\ ledWriter = "reset"
    /\ ops = <<>>
    /\ pollReads = 0
    /\ pollDelays = 0
    /\ nonzeroSeen = FALSE
    /\ mcAtEntry = Zero32
    /\ tipsAtEntry = Zero32
    /\ crcBuf = ZeroBuffer
    /\ sent = ZeroBuffer
    /\ sentLen = 0
    /\ sentCount = 0

Init == PowerOn

(***************************************************************************)
(* Interrupt logic                                                         *)
(***************************************************************************)
\* The INT1 request is delivered: flag set, source enabled, global enable set.
IntPending == INT1F = 1 /\ INT1E = 1 /\ GIE = 1

\* RB1 senses edges only as a digital input (TRISB1 = 1, ANSB1 = 0).
RB1IsInput == Bit(sfr["TRISB"], 1) = 1 /\ Bit(sfr["ANSELB"], 1) = 0

\* The main line executes its next statement group: the core is not halted
\* and no interrupt request is waiting to be taken.
CanRun == ~asleep /\ ~IntPending

\* A tip: the edge selected by INTEDG1 arrives on RB1 and latches INT1F.
\* An edge arriving while INT1F is still set leaves it set.
TipEdge ==
    /\ edges < MaxEdges
    /\ RB1IsInput
    /\ edges' = edges + 1
    /\ INT1F' = 1
    /\ UNCHANGED <<cpu, data, INT1E, GIE, INTEDG1, hw>>
    /\ UNCHANGED <<serviced, tips0, tipsHeld, branch, ledWriter, txh, snt>>

\* The handler without line 319: the pending flag is left set.
IsrLeavesFlag ==
    /\ IntPending
    /\ asleep' = FALSE
    /\ tips' = Inc32(tips)
    /\ sfr' = [sfr EXCEPT !["LATE"] = SetBit(@, 2)]
    /\ serviced' = serviced + 1
    /\ tipsHeld' = tipsHeld \cup {Inc32(tips)}
    /\ ledWriter' = "Isr"
    /\ UNCHANGED <<pc, messageCount, txData, batt, temp, j>>
    /\ UNCHANGED <<intr, pmd0, adc>>
    /\ UNCHANGED <<edges, tips0, branch, txh, snt>>

\* void __interrupt() Isr(void).  Taking the interrupt also ends SLEEP();
\* execution then continues after the SLEEP() statement.
Isr ==
    /\ IntPending
    /\ asleep' = FALSE
    /\ IF INT1F = 1
         THEN /\ tips' = Inc32(tips)
              /\ INT1F' = 0
              /\ sfr' = [sfr EXCEPT !["LATE"] = SetBit(@, 2)]
              /\ serviced' = serviced + 1
              /\ tipsHeld' = tipsHeld \cup {Inc32(tips)}
              /\ ledWriter' = "Isr"
         ELSE UNCHANGED <<tips, INT1F, sfr, serviced, tipsHeld, ledWriter>>
    /\ UNCHANGED <<pc, messageCount, txData, batt, temp, j>>
    /\ UNCHANGED <<INT1E, GIE, INTEDG1, pmd0, adc>>
    /\ UNCHANGED <<edges, tips0, branch, txh, snt>>

(***************************************************************************)
(* A/D converter hardware                                                  *)
(***************************************************************************)
\* The analog input connected to the selected channel: AN0 battery divider,
\* AN1 thermistor divider.
AnalogInput(ch) == IF ch = 0 THEN BattValues ELSE TempValues

\* A started conversion completes: the result registers are loaded (right
\* justified, ADFM = 1) and GO/DONE is cleared by the hardware.
AdcComplete ==
    /\ adc.GO = 1
    /\ \E v \in AnalogInput(adc.CHS) :
          adc' = [adc EXCEPT !.GO = 0, !.ADRESH = v \div 256, !.ADRESL = v % 256]
    /\ UNCHANGED <<cpu, data, intr, sfr, pmd0, hist>>

(***************************************************************************)
(* main(): bring-up and sampling                                           *)
(***************************************************************************)
\* line 71
main_entry ==
    /\ pc = "main" /\ CanRun
    /\ INTEDG1' = 0
    /\ pc' = "configureIO"
    /\ UNCHANGED <<asleep, data, INT1F, INT1E, GIE, hw, hist>>

\* Register writes of configureIO(), lines 119-129 (ADCMD is bit 0 of PMD2).
ConfigureIORegs(s) ==
    [s EXCEPT !["PMD2"] = ClrBit(@, 0),
              !["ANSELA"] = ClrBit(@, 2),
              !["TRISA"] = ClrBit(@, 2),
              !["LATA"] = ClrBit(@, 2),
              !["ANSELE"] = ClrBit(ClrBit(@, 1), 2),
              !["ANSELB"] = ClrBit(ClrBit(@, 4), 1),
              !["TRISE"] = ClrBit(ClrBit(@, 1), 2),
              !["TRISB"] = SetBit(@, 1)]

\* configureIO(), lines 117-130.  USART2_Start belongs to the serial driver
\* and touches none of the modelled registers.
configureIO_pins ==
    /\ pc = "configureIO" /\ CanRun
    /\ pmd0' = pmd0 \ {"UART2MD", "SPI2MD"}
    /\ sfr' = ConfigureIORegs(sfr)
    /\ tipsHeld' = {tips}
    /\ branch' = "none"
    /\ pc' = "configureIO_INT1E"
    /\ UNCHANGED <<asleep, data, intr, adc>>
    /\ UNCHANGED <<edges, serviced, tips0, ledWriter, txh, snt>>

\* line 134
configureIO_INT1E ==
    /\ pc = "configureIO_INT1E" /\ CanRun
    /\ INT1E' = 1
    /\ pc' = "configureIO_INT1F"
    /\ UNCHANGED <<asleep, data, INT1F, GIE, INTEDG1, hw, hist>>

\* line 135
configureIO_INT1F ==
    /\ pc = "configureIO_INT1F" /\ CanRun
    /\ INT1F' = 0
    /\ pc' = "configureIO_GIE"
    /\ UNCHANGED <<asleep, data, INT1E, GIE, INTEDG1, hw, hist>>

\* line 136
configureIO_GIE ==
    /\ pc = "configureIO_GIE" /\ CanRun
    /\ GIE' = 1
    /\ pc' = "setupAtoD"
    /\ UNCHANGED <<asleep, data, INT1F, INT1E, INTEDG1, hw, hist>>

\* Pin register writes of setupAtoD(), lines 287-292.
SetupAtoDPins(s) ==
    [s EXCEPT !["ANSELA"] = SetBit(SetBit(@, 0), 1),
              !["TRISA"] = SetBit(SetBit(@, 0), 1)]

\* The writes of setupAtoD() without the channel selection of line 301
\* (defect).
SetupAtoDKeepsChannel(a) ==
    [a EXCEPT !.PVCFG = 0, !.NVCFG = 0, !.FVRS = 1, !.FVREN = 1,
              !.ACQT = 2, !.ADCS = 6, !.ADFM = 1, !.ADON = 1]

\* Converter register writes of setupAtoD(), lines 295-313.
SetupAtoDRegs(a) ==
    [a EXCEPT !.PVCFG = 0, !.NVCFG = 0, !.FVRS = 1, !.FVREN = 1,
              !.CHS = 0, !.ACQT = 2, !.ADCS = 6, !.ADFM = 1, !.ADON = 1]

\* setupAtoD(), lines 283-314, and the 5 ms delay of line 75.
setupAtoD ==
    /\ pc = "setupAtoD" /\ CanRun
    /\ sfr' = SetupAtoDPins(sfr)
    /\ adc' = SetupAtoDRegs(adc)
    /\ pc' = "readBattery"
    /\ UNCHANGED <<asleep, data, intr, pmd0, hist>>

\* readBattery(), lines 262-263
readBattery_start ==
    /\ pc = "readBattery" /\ CanRun
    /\ adc' = [adc EXCEPT !.PVCFG = 2, !.GO = 1]
    /\ pc' = "readBattery_wait"
    /\ UNCHANGED <<asleep, data, intr, sfr, pmd0, hist>>

\* ADRESH * 256 + ADRESL as a uint16_t
AdcResult == (adc.ADRESH * 256 + adc.ADRESL) % 65536

\* readBattery(), lines 264-268, and the assignment of line 79
readBattery_result ==
    /\ pc = "readBattery_wait" /\ CanRun
    /\ adc.GO = 0
    /\ batt' = AdcResult
    /\ pc' = "readTemperature"
    /\ UNCHANGED <<asleep, tips, messageCount, txData, temp, j, intr, hw, hist>>

\* readTemperature(), lines 272-275
readTemperature_start ==
    /\ pc = "readTemperature" /\ CanRun
    /\ adc' = [adc EXCEPT !.PVCFG = 0, !.CHS = 1, !.GO = 1]
    /\ pc' = "readTemperature_wait"
    /\ UNCHANGED <<asleep, data, intr, sfr, pmd0, hist>>

\* readTemperature(), lines 276-280, and the assignment of line 80
readTemperature_result ==
    /\ pc = "readTemperature_wait" /\ CanRun
    /\ adc.GO = 0
    /\ temp' = AdcResult
    /\ pc' = "decide"
    /\ UNCHANGED <<asleep, tips, messageCount, txData, batt, j, intr, hw, hist>>

(***************************************************************************)
(* main(): under-voltage decision and the skip branch                      *)
(***************************************************************************)
\* The condition of line 85: batt>BATT_UVLO_ATOD, i.e. batt > 2000/4.
AboveUvlo(b) == b > BATT_UVLO_ATOD

\* line 85
decide ==
    /\ pc = "decide" /\ CanRun
    /\ IF AboveUvlo(batt)
         THEN pc' = "transmitData" /\ branch' = "transmit"
         ELSE pc' = "blink_on1" /\ branch' = "skip"
    /\ UNCHANGED <<asleep, data, intr, hw>>
    /\ UNCHANGED <<edges, serviced, tips0, tipsHeld, ledWriter, txh, snt>>

\* A blink step that always drives the indicator on (defect).
BlinkStepStuckOn(at, v, next) ==
    /\ pc = at /\ CanRun
    /\ sfr' = [sfr EXCEPT !["LATE"] = SetBit(@, 2)]
    /\ ledWriter' = "main"
    /\ ops' = Append(ops, "RED_LED=1")
    /\ pc' = next
    /\ UNCHANGED <<asleep, data, intr, pmd0, adc>>
    /\ UNCHANGED <<edges, serviced, tips0, tipsHeld, branch, snt>>
    /\ UNCHANGED <<pollReads, pollDelays, nonzeroSeen, mcAtEntry, tipsAtEntry, crcBuf>>

\* One write of RED_LED in the under-voltage branch, followed by its 300 ms
\* delay (lines 90-101).
BlinkStep(at, v, next) ==
    /\ pc = at /\ CanRun
    /\ sfr' = [sfr EXCEPT !["LATE"] = IF v = 1 THEN SetBit(@, 2) ELSE ClrBit(@, 2)]
    /\ ledWriter' = "main"
    /\ ops' = Append(ops, IF v = 1 THEN "RED_LED=1" ELSE "RED_LED=0")
    /\ pc' = next
    /\ UNCHANGED <<asleep, data, intr, pmd0, adc>>
    /\ UNCHANGED <<edges, serviced, tips0, tipsHeld, branch, snt>>
    /\ UNCHANGED <<pollReads, pollDelays, nonzeroSeen, mcAtEntry, tipsAtEntry, crcBuf>>

\* lines 90-101
blink ==
    \/ BlinkStep("blink_on1", 1, "blink_off1")
    \/ BlinkStep("blink_off1", 0, "blink_on2")
    \/ BlinkStep("blink_on2", 1, "blink_off2")
    \/ BlinkStep("blink_off2", 0, "blink_on3")
    \/ BlinkStep("blink_on3", 1, "blink_off3")
    \/ BlinkStep("blink_off3", 0, "disablePeripherals")

(***************************************************************************)
(* transmitData(): building the frame                                      *)
(***************************************************************************)
\* lines 176-182: length, identifier pair, address, software version
transmitData_header ==
    /\ pc = "transmitData" /\ CanRun
    /\ txData' = [i \in DOMAIN txData |->
                    CASE i = 0 -> DATA_PACKET_LENGTH
                      [] i = 1 -> ID0
                      [] i = 2 -> ID1
                      [] i \in 3..10 -> address[i - 2]
                      [] i = 11 -> SOFTWARE_VERSION
                      [] OTHER -> txData[i]]
    /\ mcAtEntry' = messageCount
    /\ tipsAtEntry' = tips
    /\ pc' = "transmitData_messageCount"
    /\ UNCHANGED <<asleep, tips, messageCount, batt, temp, j, intr, hw>>
    /\ UNCHANGED <<edges, serviced, tips0, tipsHeld, branch, ledWriter, snt>>
    /\ UNCHANGED <<ops, pollReads, pollDelays, nonzeroSeen, crcBuf>>

\* The sequence field taken from the counter as it will be after the
\* increment of line 254 (defect).
MessageCountEncodedIncremented ==
    /\ pc = "transmitData_messageCount" /\ CanRun
    /\ txData' = [txData EXCEPT ![12] = Shr32Byte(Inc32(messageCount), 24),
                                ![13] = Shr32Byte(Inc32(messageCount), 16),
                                ![14] = Shr32Byte(Inc32(messageCount), 8),
                                ![15] = Shr32Byte(Inc32(messageCount), 0)]
    /\ pc' = "transmitData_readings"
    /\ UNCHANGED <<asleep, tips, messageCount, batt, temp, j, intr, hw, hist>>

\* lines 185-188
transmitData_messageCount ==
    /\ pc = "transmitData_messageCount" /\ CanRun
    /\ txData' = [txData EXCEPT ![12] = Shr32Byte(messageCount, 24),
                                ![13] = Shr32Byte(messageCount, 16),
                                ![14] = Shr32Byte(messageCount, 8),
                                ![15] = Shr32Byte(messageCount, 0)]
    /\ pc' = "transmitData_readings"
    /\ UNCHANGED <<asleep, tips, messageCount, batt, temp, j, intr, hw, hist>>

\* lines 191-204
transmitData_readings ==
    /\ pc = "transmitData_readings" /\ CanRun
    /\ txData' = [txData EXCEPT ![16] = Shr16Byte(batt, 8),
                                ![17] = Shr16Byte(batt, 0),
                                ![18] = Shr16Byte(temp, 8),
                                ![19] = Shr16Byte(temp, 0),
                                ![20] = 0, ![21] = 0, ![22] = 0, ![23] = 0]
    /\ pc' = "transmitData_tips24"
    /\ UNCHANGED <<asleep, tips, messageCount, batt, temp, j, intr, hw, hist>>

\* txData[at] = (uint8_t)((tips >> bits) & 0xFF): one read of the volatile
\* counter per statement.
TipsByteStep(here, at, bits, next) ==
    /\ pc = here /\ CanRun
    /\ txData' = [txData EXCEPT ![at] = Shr32Byte(tips, bits)]
    /\ pc' = next
    /\ UNCHANGED <<asleep, tips, messageCount, batt, temp, j, intr, hw, hist>>

\* lines 208-211
transmitData_tips ==
    \/ TipsByteStep("transmitData_tips24", 24, 24, "transmitData_tips25")
    \/ TipsByteStep("transmitData_tips25", 25, 16, "transmitData_tips26")
    \/ TipsByteStep("transmitData_tips26", 26, 8, "transmitData_tips27")
    \/ TipsByteStep("transmitData_tips27", 27, 0, "transmitData_fill")

\* i<47 in place of i<48
FillStopsEarly ==
    /\ pc = "transmitData_fill" /\ CanRun
    /\ txData' = [i \in DOMAIN txData |-> IF i \in 28..46 THEN 0 ELSE txData[i]]
    /\ pc' = "transmitData_crc"
    /\ UNCHANGED <<asleep, tips, messageCount, batt, temp, j, intr, hw, hist>>

\* lines 214-216
transmitData_fill ==
    /\ pc = "transmitData_fill" /\ CanRun
    /\ txData' = [i \in DOMAIN txData |-> IF i \in 28..47 THEN 0 ELSE txData[i]]
    /\ pc' = "transmitData_crc"
    /\ UNCHANGED <<asleep, tips, messageCount, batt, temp, j, intr, hw, hist>>

\* The checksum bytes stored in the opposite order
CrcBytesSwapped ==
    /\ pc = "transmitData_crc" /\ CanRun
    /\ LET calcCRC == CRC16(txData, DATA_PACKET_LENGTH - 2)
       IN  txData' = [txData EXCEPT ![48] = (calcCRC \div 256) % 256,
                                    ![49] = calcCRC % 256]
    /\ crcBuf' = txData
    /\ ops' = Append(ops, "CRC16")
    /\ pc' = "LoRaStart"
    /\ UNCHANGED <<asleep, tips, messageCount, batt, temp, j, intr, hw>>
    /\ UNCHANGED <<edges, serviced, tips0, tipsHeld, branch, ledWriter, snt>>
    /\ UNCHANGED <<pollReads, pollDelays, nonzeroSeen, mcAtEntry, tipsAtEntry>>

\* lines 219-221
transmitData_crc ==
    /\ pc = "transmitData_crc" /\ CanRun
    /\ LET calcCRC == CRC16(txData, DATA_PACKET_LENGTH - 2)
       IN  txData' = [txData EXCEPT ![49] = (calcCRC \div 256) % 256,
                                    ![48] = calcCRC % 256]
    /\ crcBuf' = txData
    /\ ops' = Append(ops, "CRC16")
    /\ pc' = "LoRaStart"
    /\ UNCHANGED <<asleep, tips, messageCount, batt, temp, j, intr, hw>>
    /\ UNCHANGED <<edges, serviced, tips0, tipsHeld, branch, ledWriter, snt>>
    /\ UNCHANGED <<pollReads, pollDelays, nonzeroSeen, mcAtEntry, tipsAtEntry>>

(***************************************************************************)
(* transmitData(): the transceiver hand-off                                *)
(***************************************************************************)
\* A call of a transceiver driver routine that changes no program state.
RadioCall(here, name, next) ==
    /\ pc = here /\ CanRun
    /\ ops' = Append(ops, name)
    /\ pc' = next
    /\ UNCHANGED <<asleep, data, intr, hw>>
    /\ UNCHANGED <<edges, serviced, tips0, tipsHeld, branch, ledWriter, snt>>
    /\ UNCHANGED <<pollReads, pollDelays, nonzeroSeen, mcAtEntry, tipsAtEntry, crcBuf>>

\* lines 225 and 229
transmitData_configure ==
    \/ RadioCall("LoRaStart", "LoRaStart", "LoRaClearIRQFlags")
    \/ RadioCall("LoRaClearIRQFlags", "LoRaClearIRQFlags", "transmitData_ledOn")

\* line 230
transmitData_ledOn ==
    /\ pc = "transmitData_ledOn" /\ CanRun
    /\ sfr' = [sfr EXCEPT !["LATE"] = SetBit(@, 2)]
    /\ ops' = Append(ops, "RED_LED=1")
    /\ ledWriter' = "main"
    /\ pc' = "LoRaTXData"
    /\ UNCHANGED <<asleep, data, intr, pmd0, adc>>
    /\ UNCHANGED <<edges, serviced, tips0, tipsHeld, branch, snt>>
    /\ UNCHANGED <<pollReads, pollDelays, nonzeroSeen, mcAtEntry, tipsAtEntry, crcBuf>>

\* line 231, and the loop initialisation of lines 235-236
transmitData_send ==
    /\ pc = "LoRaTXData" /\ CanRun
    /\ sent' = txData
    /\ sentLen' = DATA_PACKET_LENGTH
    /\ sentCount' = sentCount + 1
    /\ ops' = Append(ops, "LoRaTXData")
    /\ j' = 0
    /\ pc' = "poll"
    /\ UNCHANGED <<asleep, tips, messageCount, txData, batt, temp, intr, hw>>
    /\ UNCHANGED <<edges, serviced, tips0, tipsHeld, branch, ledWriter>>
    /\ UNCHANGED <<pollReads, pollDelays, nonzeroSeen, mcAtEntry, tipsAtEntry, crcBuf>>

\* j<=50 in place of j<50
PollContinuesInclusive(jj) == jj <= PollLimit

\* j<256 in place of j<50: always true of a uint8_t
PollContinuesAlways(jj) == jj < 256

\* The loop condition of line 236, j<50.
PollContinues(jj) == jj < PollLimit

\* Observation counters count up to PollLimit + 1.
CountUp(n) == IF n > PollLimit THEN n ELSE n + 1

\* The poll phase is logged once, however many reads it makes.
LogPoll(o) == IF o # <<>> /\ o[Len(o)] = "LoRaGetIRQFlags"
                THEN o ELSE Append(o, "LoRaGetIRQFlags")

\* The 10 ms delay taken before the flags are tested, so that it also
\* follows the read that ends the loop (defect).
PollDelaysBeforeTest ==
    /\ pc = "poll" /\ CanRun
    /\ PollContinues(j)
    /\ \E flags \in FlagValues :
          /\ ops' = LogPoll(ops)
          /\ pollReads' = CountUp(pollReads)
          /\ pollDelays' = CountUp(pollDelays)
          /\ IF flags > 0
               THEN /\ nonzeroSeen' = TRUE
                    /\ pc' = "LoRaSleepMode"
                    /\ UNCHANGED j
               ELSE /\ j' = (j + 1) % 256
                    /\ pc' = IF PollContinues((j + 1) % 256)
                               THEN "poll" ELSE "LoRaSleepMode"
                    /\ UNCHANGED nonzeroSeen
    /\ UNCHANGED <<asleep, tips, messageCount, txData, batt, temp, intr, hw>>
    /\ UNCHANGED <<edges, serviced, tips0, tipsHeld, branch, ledWriter, snt>>
    /\ UNCHANGED <<mcAtEntry, tipsAtEntry, crcBuf>>

\* One iteration of the loop of lines 236-243 (entered with j<50 true): read
\* the flags; leave on a nonzero value; otherwise delay 10 ms, j++ (uint8_t)
\* and test j<50 again.
transmitData_poll ==
    /\ pc = "poll" /\ CanRun
    /\ PollContinues(j)
    /\ \E flags \in FlagValues :
          /\ ops' = LogPoll(ops)
          /\ pollReads' = CountUp(pollReads)
          /\ IF flags > 0
               THEN /\ nonzeroSeen' = TRUE
                    /\ pc' = "LoRaSleepMode"
                    /\ UNCHANGED <<j, pollDelays>>
               ELSE /\ pollDelays' = CountUp(pollDelays)
                    /\ j' = (j + 1) % 256
                    /\ pc' = IF PollContinues((j + 1) % 256)
                               THEN "poll" ELSE "LoRaSleepMode"
                    /\ UNCHANGED nonzeroSeen
    /\ UNCHANGED <<asleep, tips, messageCount, txData, batt, temp, intr, hw>>
    /\ UNCHANGED <<edges, serviced, tips0, tipsHeld, branch, ledWriter, snt>>
    /\ UNCHANGED <<mcAtEntry, tipsAtEntry, crcBuf>>

\* The transceiver put to sleep only after a completed transmission (defect).
SleepModeOnlyCompleted ==
    /\ pc = "LoRaSleepMode" /\ CanRun
    /\ ops' = IF nonzeroSeen THEN Append(ops, "LoRaSleepMode") ELSE ops
    /\ pc' = "transmitData_count"
    /\ UNCHANGED <<asleep, data, intr, hw>>
    /\ UNCHANGED <<edges, serviced, tips0, tipsHeld, branch, ledWriter, snt>>
    /\ UNCHANGED <<pollReads, pollDelays, nonzeroSeen, mcAtEntry, tipsAtEntry, crcBuf>>

\* lines 252-253
transmitData_sleepMode ==
    RadioCall("LoRaSleepMode", "LoRaSleepMode", "transmitData_count")

\* messageCount++ only after a completed transmission
CountOnlyCompleted ==
    /\ pc = "transmitData_count" /\ CanRun
    /\ messageCount' = IF nonzeroSeen THEN Inc32(messageCount) ELSE messageCount
    /\ ops' = Append(ops, "messageCount++")
    /\ pc' = "transmitData_ledOff"
    /\ UNCHANGED <<asleep, tips, txData, batt, temp, j, intr, hw>>
    /\ UNCHANGED <<edges, serviced, tips0, tipsHeld, branch, ledWriter, snt>>
    /\ UNCHANGED <<pollReads, pollDelays, nonzeroSeen, mcAtEntry, tipsAtEntry, crcBuf>>

\* line 254
transmitData_count ==
    /\ pc = "transmitData_count" /\ CanRun
    /\ messageCount' = Inc32(messageCount)
    /\ ops' = Append(ops, "messageCount++")
    /\ pc' = "transmitData_ledOff"
    /\ UNCHANGED <<asleep, tips, txData, batt, temp, j, intr, hw>>
    /\ UNCHANGED <<edges, serviced, tips0, tipsHeld, branch, ledWriter, snt>>
    /\ UNCHANGED <<pollReads, pollDelays, nonzeroSeen, mcAtEntry, tipsAtEntry, crcBuf>>

\* line 255 and the return; the local j ends with the call.
transmitData_ledOff ==
    /\ pc = "transmitData_ledOff" /\ CanRun
    /\ sfr' = [sfr EXCEPT !["LATE"] = ClrBit(@, 2)]
    /\ ops' = Append(ops, "RED_LED=0")
    /\ ledWriter' = "main"
    /\ j' = 0
    /\ pc' = "disablePeripherals"
    /\ UNCHANGED <<asleep, tips, messageCount, txData, batt, temp, intr, pmd0, adc>>
    /\ UNCHANGED <<edges, serviced, tips0, tipsHeld, branch, snt>>
    /\ UNCHANGED <<pollReads, pollDelays, nonzeroSeen, mcAtEntry, tipsAtEntry, crcBuf>>

(***************************************************************************)
(* disablePeripherals() and SLEEP                                          *)
(***************************************************************************)
\* PMD0 bits set by lines 157-166
Pmd0Off == {"UART2MD", "UART1MD", "TMR6MD", "TMR5MD", "TMR4MD", "TMR3MD",
            "TMR2MD", "TMR1MD", "SPI2MD", "SPI1MD"}

\* TRISB=0 in place of TRISB=0x02
DisablePortsAllOutputs(s) ==
    [s EXCEPT !["TRISA"] = 0, !["TRISB"] = 0, !["TRISC"] = 0,
              !["TRISD"] = 0, !["TRISE"] = 0,
              !["LATA"] = 0, !["LATB"] = 0, !["LATC"] = 0, !["LATD"] = 0]

\* Register writes of lines 142-150.
DisablePorts(s) ==
    [s EXCEPT !["TRISA"] = 0, !["TRISB"] = 2, !["TRISC"] = 0,
              !["TRISD"] = 0, !["TRISE"] = 0,
              !["LATA"] = 0, !["LATB"] = 0, !["LATC"] = 0, !["LATD"] = 0]

\* The writes of lines 152-167 without PMD2=0xFF of line 168 (defect).
DisableRestLeavesPmd2(s) ==
    [s EXCEPT !["LATA"] = SetBit(@, 2),
              !["TRISD"] = SetBit(@, 1),
              !["ANSELD"] = ClrBit(@, 1),
              !["LATD"] = SetBit(@, 3),
              !["PMD1"] = 255]

\* Register writes of lines 152-156, 167 and 168.
DisableRest(s) ==
    [s EXCEPT !["LATA"] = SetBit(@, 2),
              !["TRISD"] = SetBit(@, 1),
              !["ANSELD"] = ClrBit(@, 1),
              !["LATD"] = SetBit(@, 3),
              !["PMD1"] = 255,
              !["PMD2"] = 255]

\* lines 140-150.  The observations of the finished transmitData call end here.
disablePeripherals_ports ==
    /\ pc = "disablePeripherals" /\ CanRun
    /\ adc' = [adc EXCEPT !.ADON = 0]
    /\ sfr' = DisablePorts(sfr)
    /\ ops' = <<>>
    /\ pollReads' = 0
    /\ pollDelays' = 0
    /\ nonzeroSeen' = FALSE
    /\ mcAtEntry' = Zero32
    /\ tipsAtEntry' = Zero32
    /\ crcBuf' = ZeroBuffer
    /\ pc' = "disablePeripherals_LATE"
    /\ UNCHANGED <<asleep, data, intr, pmd0>>
    /\ UNCHANGED <<edges, serviced, tips0, tipsHeld, branch, ledWriter, snt>>

\* line 151
disablePeripherals_LATE ==
    /\ pc = "disablePeripherals_LATE" /\ CanRun
    /\ sfr' = [sfr EXCEPT !["LATE"] = 0]
    /\ ledWriter' = "main"
    /\ pc' = "disablePeripherals_rest"
    /\ UNCHANGED <<asleep, data, intr, pmd0, adc>>
    /\ UNCHANGED <<edges, serviced, tips0, tipsHeld, branch, txh, snt>>

\* lines 152-168
disablePeripherals_rest ==
    /\ pc = "disablePeripherals_rest" /\ CanRun
    /\ sfr' = DisableRest(sfr)
    /\ pmd0' = pmd0 \cup Pmd0Off
    /\ pc' = "SLEEP"
    /\ UNCHANGED <<asleep, data, intr, adc, hist>>

\* Whether a wake source other than INT1 (a watchdog period) is configured.
\* The configuration bits are set in config.h, which is not part of the
\* sources at hand; the design description states that no timed wake source
\* is configured and that only the tip interrupt ends SLEEP.
TimedWakeConfigured == FALSE

\* line 111: the core halts until an enabled interrupt request arrives (with
\* a timed wake source the halt would end by itself).
sleep ==
    /\ pc = "SLEEP" /\ CanRun
    /\ asleep' = ~TimedWakeConfigured
    /\ pc' = "goto_start"
    /\ UNCHANGED <<data, intr, hw, hist>>

\* line 113
goto_start ==
    /\ pc = "goto_start" /\ CanRun
    /\ pc' = "configureIO"
    /\ UNCHANGED <<asleep, data, intr, hw, hist>>

(***************************************************************************)
(* Specifications                                                          *)
(***************************************************************************)
\* transmitData(), lines 171-256
TransmitLine ==
    \/ transmitData_header
    \/ transmitData_messageCount
    \/ transmitData_readings
    \/ transmitData_tips
    \/ transmitData_fill
    \/ transmitData_crc
    \/ transmitData_configure
    \/ transmitData_ledOn
    \/ transmitData_send
    \/ transmitData_poll
    \/ transmitData_sleepMode
    \/ transmitData_count
    \/ transmitData_ledOff

\* The main line of main()
MainLine ==
    \/ main_entry
    \/ configureIO_pins
    \/ configureIO_INT1E
    \/ configureIO_INT1F
    \/ configureIO_GIE
    \/ setupAtoD
    \/ readBattery_start
    \/ readBattery_result
    \/ readTemperature_start
    \/ readTemperature_result
    \/ decide
    \/ blink
    \/ TransmitLine
    \/ disablePeripherals_ports
    \/ disablePeripherals_LATE
    \/ disablePeripherals_rest
    \/ sleep
    \/ goto_start

Next == TipEdge \/ Isr \/ AdcComplete \/ MainLine

\* The device from power-on.
Spec == Init /\ [][Next]_vars

\* The core executes the next instruction whenever it is not halted, takes a
\* pending interrupt, and a started conversion completes.
FairSpec == Spec /\ WF_vars(MainLine) /\ WF_vars(Isr) /\ WF_vars(AdcComplete)

(***************************************************************************)
(* The telemetry frame as laid out in the frame table: offset 0 length,    *)
(* 1-2 identifier pair, 3-10 address, 11 version, 12-15 message counter,   *)
(* 16-17 battery, 18-19 temperature, 20-23 zero, 24-27 tip counter,        *)
(* 28-47 zero, 48 checksum low byte, 49 checksum high byte; multi-byte     *)
(* integers most significant byte first.                                   *)
(***************************************************************************)
FrameBody(mc, b, t, tp) ==
    [i \in 0..47 |->
        CASE i = 0 -> 50
          [] i = 1 -> 0
          [] i = 2 -> 1
          [] i \in 3..10 -> address[i - 2]
          [] i = 11 -> 8
          [] i \in 12..15 -> mc[15 - i]
          [] i = 16 -> b \div 256
          [] i = 17 -> b % 256
          [] i = 18 -> t \div 256
          [] i = 19 -> t % 256
          [] i \in 24..27 -> tp[27 - i]
          [] OTHER -> 0]

Frame(mc, b, t, tp) ==
    LET body == FrameBody(mc, b, t, tp)
        sum == CRC16(body, 48)
    IN  [i \in 0..49 |-> CASE i = 48 -> sum % 256
                            [] i = 49 -> sum \div 256
                            [] OTHER -> body[i]]

(***************************************************************************)
(* The device after a long time in service.  The counters are never reset, *)
(* so the carries between their bytes happen only after many tips; the     *)
(* states below are the program states right after a tip woke the device   *)
(* from SLEEP (the handler has run, line 113 is next), with the counters   *)
(* at values just below a carry.                                           *)
(***************************************************************************)
\* Registers as disablePeripherals() leaves them.
Quiesced ==
    DisableRest([DisablePorts(SetupAtoDPins(ConfigureIORegs(ResetSfr(0))))
                    EXCEPT !["LATE"] = 0])

\* Program state right after the handler ended a SLEEP: counters t and mc,
\* last readings b and tp, buffer content buf left by earlier cycles.
Resumed(t, mc, b, tp, buf) ==
    /\ pc = "goto_start"
    /\ asleep = FALSE
    /\ tips = t
    /\ messageCount = mc
    /\ txData = buf
    /\ batt = b
    /\ temp = tp
    /\ j = 0
    /\ INT1F = 0
    /\ INT1E = 1
    /\ GIE = 1
    /\ INTEDG1 = 0
    /\ sfr = [Quiesced EXCEPT !["LATE"] = SetBit(@, 2)]
    /\ pmd0 = Pmd0Off
    /\ adc = [SetupAtoDRegs(ResetAdc) EXCEPT !.CHS = 1, !.ADON = 0,
                  !.ADRESH = tp \div 256, !.ADRESL = tp % 256]

\* Observations start afresh in the given program state.
Observing(t, prev, br, last, len) ==
    /\ edges = 0
    /\ serviced = 0
    /\ tips0 = t
    /\ tipsHeld = {prev, t}
    /\ branch = br
    /\ ledWriter = "Isr"
    /\ ops = <<>>
    /\ pollReads = 0
    /\ pollDelays = 0
    /\ nonzeroSeen = FALSE
    /\ mcAtEntry = Zero32
    /\ tipsAtEntry = Zero32
    /\ crcBuf = ZeroBuffer
    /\ sent = last
    /\ sentLen = len
    /\ sentCount = 0

\* 255 tips counted, every cycle so far skipped for under-voltage.
InServiceSkipping ==
    /\ Resumed(W(0, 0, 0, 255), Zero32, 500, 450, ZeroBuffer)
    /\ Observing(W(0, 0, 0, 255), W(0, 0, 0, 254), "skip", ZeroBuffer, 0)

\* 2^32 - 1 tips counted, 65535 frames sent, the last one in the cycle before.
InServiceSending ==
    LET last == Frame(W(0, 0, 255, 254), 501, 450, W(255, 255, 255, 254))
    IN  /\ Resumed(W(255, 255, 255, 255), W(0, 0, 255, 255), 501, 450, last)
        /\ Observing(W(255, 255, 255, 255), W(255, 255, 255, 254), "transmit",
                     last, DATA_PACKET_LENGTH)

InService == InServiceSkipping \/ InServiceSending

\* The device from power-on or from a state in service.
LongRunSpec == (Init \/ InService) /\ [][Next]_vars

\* 255 tips counted and 200 frames sent, the last one, reporting 254 tips,
\* in the cycle before.
InServiceCounting ==
    LET last == Frame(W(0, 0, 0, 199), 501, 450, W(0, 0, 0, 254))
    IN  /\ Resumed(W(0, 0, 0, 255), W(0, 0, 0, 200), 501, 450, last)
        /\ Observing(W(0, 0, 0, 255), W(0, 0, 0, 254), "transmit",
                     last, DATA_PACKET_LENGTH)

\* The device from power-on or in service just below a carry out of the low
\* byte of tips.
ByteCarrySpec == (Init \/ InServiceCounting) /\ [][Next]_vars

(***************************************************************************)
(* transmitData() as a function of the values it encodes: entered with     *)
(* counters and readings drawn from the sets below and a buffer holding    *)
(* arbitrary earlier content.                                              *)
(***************************************************************************)
EncodeCounts == {W(0, 0, 0, 7), W(1, 2, 3, 4)}
EncodeTips == {W(0, 0, 0, 3), W(9, 8, 255, 255)}
EncodeBatt == {600, 1023}
EncodeTemp == {0, 450}
EncodeBuffers == {[i \in 0..(DATA_PACKET_LENGTH - 1) |-> 170]}

EncodeInit ==
    /\ pc = "transmitData"
    /\ asleep = FALSE
    /\ tips \in EncodeTips
    /\ messageCount \in EncodeCounts
    /\ txData \in EncodeBuffers
    /\ batt \in EncodeBatt
    /\ temp \in EncodeTemp
    /\ j = 0
    /\ INT1F = 0
    /\ INT1E = 1
    /\ GIE = 1
    /\ INTEDG1 = 0
    /\ sfr = SetupAtoDPins(ConfigureIORegs(Quiesced))
    /\ pmd0 = Pmd0Off \ {"UART2MD", "SPI2MD"}
    /\ adc = [SetupAtoDRegs(ResetAdc) EXCEPT !.CHS = 1,
                  !.ADRESH = temp \div 256, !.ADRESL = temp % 256]
    /\ edges = 0
    /\ serviced = 0
    /\ tips0 = tips
    /\ tipsHeld = {tips}
    /\ branch = "transmit"
    /\ ledWriter = "main"
    /\ ops = <<>>
    /\ pollReads = 0
    /\ pollDelays = 0
    /\ nonzeroSeen = FALSE
    /\ mcAtEntry = Zero32
    /\ tipsAtEntry = Zero32
    /\ crcBuf = ZeroBuffer
    /\ sent = ZeroBuffer
    /\ sentLen = 0
    /\ sentCount = 0

EncodeNext == TransmitLine \/ TipEdge \/ Isr

EncodeSpec == EncodeInit /\ [][EncodeNext]_vars

\* The shape of the in-service states is reached from power-on: woken by the
\* first tip after a cycle that transmitted.
ResumedAfterFirstTip ==
    /\ Resumed(W(0, 0, 0, 1), W(0, 0, 0, 1), 501, 450, Frame(Zero32, 501, 450, Zero32))
    /\ tipsHeld = {Zero32, W(0, 0, 0, 1)}
    /\ branch = "transmit"
    /\ ledWriter = "Isr"
    /\ ops = <<>> /\ pollReads = 0 /\ pollDelays = 0 /\ nonzeroSeen = FALSE
    /\ mcAtEntry = Zero32 /\ tipsAtEntry = Zero32 /\ crcBuf = ZeroBuffer
    /\ sent = Frame(Zero32, 501, 450, Zero32)
    /\ sentLen = DATA_PACKET_LENGTH

\* The same after a cycle that was skipped for under-voltage.
ResumedAfterSkip ==
    /\ Resumed(W(0, 0, 0, 1), Zero32, 500, 450, ZeroBuffer)
    /\ tipsHeld = {Zero32, W(0, 0, 0, 1)}
    /\ branch = "skip"
    /\ ledWriter = "Isr"
    /\ ops = <<>> /\ pollReads = 0 /\ pollDelays = 0 /\ nonzeroSeen = FALSE
    /\ mcAtEntry = Zero32 /\ tipsAtEntry = Zero32 /\ crcBuf = ZeroBuffer
    /\ sent = ZeroBuffer
    /\ sentLen = 0

(***************************************************************************)
(* Properties                                                              *)
(***************************************************************************)
\* Arithmetic on the counters as 32-bit numbers, by 16-bit halves.
Lo16(w) == w[0] + 256 * w[1]
Hi16(w) == w[2] + 256 * w[3]

\* b = a + 1 (mod 2^32)
IsSucc32(a, b) ==
    IF Lo16(a) = 65535
      THEN Lo16(b) = 0 /\ Hi16(b) = (Hi16(a) + 1) % 65536
      ELSE Lo16(b) = Lo16(a) + 1 /\ Hi16(b) = Hi16(a)

\* a + n (mod 2^32) for a small n
Plus32(a, n) ==
    LET lo == Lo16(a) + n
        hi == (Hi16(a) + lo \div 65536) % 65536
    IN  W(hi \div 256, hi % 256, (lo % 65536) \div 256, lo % 256)

\* The current transmitData call has handed its frame to LoRaTXData.
HandedOff == \E i \in DOMAIN ops : ops[i] = "LoRaTXData"

\* transmitData has returned and disablePeripherals has not begun.
AtReturn == pc = "disablePeripherals" /\ branch = "transmit" /\ ops # <<>>

\* The completion poll has been left.
PollLeft == pc \in {"LoRaSleepMode", "transmitData_count", "transmitData_ledOff"}
            \/ AtReturn

\* The tip-count field of a frame, as a counter value.
TipField(f) == [k \in 0..3 |-> f[27 - k]]

\* C1: in the DECIDE step a battery reading equal to the lockout threshold
\* (500) takes the transmit branch and a reading of 499 takes the skip branch.
C1_ThresholdBoundary ==
    branch # "none" =>
        /\ (batt = 500 => branch = "transmit")
        /\ (batt = 499 => branch = "skip")

\* C2: when every status-flag read returns zero, the poll loop is left after
\* exactly 50 reads, and the call still commands the transceiver to sleep and
\* increments messageCount by one.
C2_TimeoutBound ==
    /\ (pc = "poll" => pollReads < 50)
    /\ (PollLeft /\ ~nonzeroSeen => pollReads = 50)
    /\ (AtReturn /\ ~nonzeroSeen =>
            /\ ops = <<"CRC16", "LoRaStart", "LoRaClearIRQFlags", "RED_LED=1",
                       "LoRaTXData", "LoRaGetIRQFlags", "LoRaSleepMode",
                       "messageCount++", "RED_LED=0">>
            /\ IsSucc32(mcAtEntry, messageCount))

C2_Witness == AtReturn /\ ~nonzeroSeen /\ pollReads = 50

\* C3: tips changes only in the handler, by exactly one per serviced edge,
\* with the pending flag cleared; the main cycle never writes it; after N
\* serviced edges tips is N more (mod 2^32), and no edge is counted twice.
C3_TipsCountedOnce ==
    /\ [][tips' # tips =>
            /\ INT1F = 1 /\ INT1F' = 0
            /\ IsSucc32(tips, tips')
            /\ serviced' = serviced + 1
            /\ pc' = pc]_vars
    /\ [](tips = Plus32(tips0, serviced) /\ serviced <= edges)

C3_Witness ==
    tips0 = W(255, 255, 255, 255) /\ serviced = 2 /\ tips = W(0, 0, 0, 1)

\* C4: the tip-count bytes of the frame handed to the transceiver encode a
\* value that tips held at some instant of the cycle.
C4_FrameTipsUntorn == HandedOff => TipField(sent) \in tipsHeld

\* C5: messageCount changes only in transmitData, by exactly one per call
\* whichever way the poll ended; a skipped cycle leaves it unchanged.
C5_MessageCountPerCall ==
    /\ [][messageCount' # messageCount =>
            /\ pc = "transmitData_count" /\ branch = "transmit"
            /\ IsSucc32(messageCount, messageCount')]_vars
    /\ [](AtReturn => IsSucc32(mcAtEntry, messageCount))

C5_Witness ==
    AtReturn /\ ~nonzeroSeen /\ mcAtEntry = W(0, 0, 255, 255)
             /\ messageCount = W(0, 1, 0, 0)

\* C6: from any point of the cycle the device reaches SLEEP, on the transmit
\* and on the skip branch, whatever the status flags return and whatever tip
\* interrupts occur, provided each conversion completes.
C6_CycleReachesSleep == ~asleep ~> asleep

C6_Witness == asleep /\ branch = "skip" /\ sentCount >= 1 /\ serviced >= 1

\* disablePeripherals has returned and the device has not been woken since.
Quiet == pc = "SLEEP" \/ asleep

\* C7 as stated: after disablePeripherals every pin of ports A-E other than
\* RB1 is an output driven low, and RB1 is an input.
C7_AllLowExceptRB1 ==
    Quiet =>
        \A p \in Ports : \A b \in PinBits(p) :
            IF p = "B" /\ b = 1
              THEN Bit(sfr[TRIS(p)], b) = 1
              ELSE Bit(sfr[TRIS(p)], b) = 0 /\ Bit(sfr[LAT(p)], b) = 0

\* C7 as amended: after disablePeripherals RB1 and RD1 are inputs and every
\* other pin is an output; every latch is low except RA2 and RD3, which are
\* high, and RE2, which is high exactly if the handler wrote it last.
C7_QuiescedPins ==
    Quiet =>
        \A p \in Ports : \A b \in PinBits(p) :
            /\ Bit(sfr[TRIS(p)], b) = 1 <=> <<p, b>> \in {<<"B", 1>>, <<"D", 1>>}
            /\ Bit(sfr[LAT(p)], b) = 1 <=>
                  \/ <<p, b>> \in {<<"A", 2>>, <<"D", 3>>}
                  \/ <<p, b>> = <<"E", 2>> /\ ledWriter = "Isr"

C7_Witness == pc = "SLEEP" /\ RED_LED = 1 /\ branch = "transmit"

\* A counted tip that no frame handed to the transceiver reports yet.
Unreported == serviced > 0 /\ (sentCount = 0 \/ TipField(sent) # tips)

\* C8: every counted tip is eventually reported by a transmitted frame (or
\* the battery is below the lockout threshold), without a further tip edge.
C8_CountedTipReported == Unreported ~> (~Unreported \/ branch = "skip")

\* C9: the buffer handed to LoRaTXData is laid out as the frame table says,
\* for the counters and readings the call was entered with, and its length
\* is 50; messageCount 7, batt 600, temp 450, tips 3 gives 00 00 00 07,
\* 02 58, 01 C2, 00 00 00 03.
C9_FrameLayout ==
    HandedOff =>
        LET body == FrameBody(mcAtEntry, batt, temp, tipsAtEntry)
        IN  /\ sentLen = 50
            /\ \A i \in (0..47) \ (24..27) : sent[i] = body[i]
            /\ tips = tipsAtEntry => \A i \in 24..27 : sent[i] = body[i]
            /\ (/\ mcAtEntry = W(0, 0, 0, 7) /\ batt = 600 /\ temp = 450
                /\ tipsAtEntry = W(0, 0, 0, 3) /\ tips = tipsAtEntry)
               => /\ <<sent[12], sent[13], sent[14], sent[15]>> = <<0, 0, 0, 7>>
                  /\ <<sent[16], sent[17]>> = <<2, 88>>
                  /\ <<sent[18], sent[19]>> = <<1, 194>>
                  /\ <<sent[24], sent[25], sent[26], sent[27]>> = <<0, 0, 0, 3>>

C9_Witness ==
    /\ HandedOff /\ tips = tipsAtEntry
    /\ mcAtEntry = W(0, 0, 0, 7) /\ batt = 600 /\ temp = 450
    /\ tipsAtEntry = W(0, 0, 0, 3)
    /\ sent[0] = 50 /\ sent[17] = 88 /\ sent[27] = 3 /\ sent[47] = 0

\* C10: in the frame handed to the transceiver byte 48 is the low and byte
\* 49 the high byte of the checksum of its bytes 0-47, and bytes 0-47 are
\* those the checksum was computed over.
C10_ChecksumMatches ==
    HandedOff =>
        LET sum == CRC16(sent, 48)
        IN  /\ sent[48] = sum % 256
            /\ sent[49] = sum \div 256
            /\ \A i \in 0..47 : sent[i] = crcBuf[i]

C10_Witness == HandedOff /\ serviced >= 1 /\ sent[49] # 0 /\ sent[48] # sent[49]

\* The operations of the transceiver driver.
RadioOps == {"LoRaStart", "LoRaClearIRQFlags", "LoRaTXData", "LoRaGetIRQFlags",
             "LoRaSleepMode"}

\* The program positions inside transmitData.
TransmitPcs == {"transmitData", "transmitData_messageCount",
                "transmitData_readings", "transmitData_tips24",
                "transmitData_tips25", "transmitData_tips26",
                "transmitData_tips27", "transmitData_fill", "transmitData_crc",
                "LoRaStart", "LoRaClearIRQFlags", "transmitData_ledOn",
                "LoRaTXData", "poll", "LoRaSleepMode", "transmitData_count",
                "transmitData_ledOff"}

\* The under-voltage branch has written the indicator for the last time and
\* disablePeripherals has not begun.
AfterBlink == pc = "disablePeripherals" /\ branch = "skip"

\* C11: a cycle whose battery reading is below the threshold never enters
\* transmitData, invokes no transceiver operation and leaves txData as it
\* was; its main line writes the indicator on, off three times over, the
\* last write leaving it off, and goes on to disablePeripherals.
C11_SkipBlinksThrice ==
    /\ [](branch = "skip" =>
            /\ pc \notin TransmitPcs
            /\ \A i \in DOMAIN ops : ops[i] \notin RadioOps)
    /\ [](AfterBlink =>
            /\ ops = <<"RED_LED=1", "RED_LED=0", "RED_LED=1", "RED_LED=0",
                       "RED_LED=1", "RED_LED=0">>
            /\ (ledWriter = "main" => RED_LED = 0))
    /\ [][branch = "skip" /\ branch' = "skip" =>
            /\ txData' = txData /\ snt' = snt /\ messageCount' = messageCount
            /\ (pc = "blink_off3" /\ pc' # pc => pc' = "disablePeripherals" /\ RED_LED' = 0)]_vars

C11_Witness ==
    /\ AfterBlink /\ Len(ops) = 6 /\ RED_LED = 0
    /\ serviced >= 1 /\ sentCount >= 1 /\ txData = sent

\* The phases of one transmitData call, in source order.
CallOrder == <<"CRC16", "LoRaStart", "LoRaClearIRQFlags", "RED_LED=1",
               "LoRaTXData", "LoRaGetIRQFlags", "LoRaSleepMode",
               "messageCount++", "RED_LED=0">>

\* C12: within every transmitData call the phases (checksum over the built
\* frame, configure, clear flags, indicator on, transmit, poll, sleep mode,
\* messageCount++, indicator off) occur once each in that order, whether
\* the poll ended by a flag or by the timeout; the frame is complete when
\* the transceiver is first touched, and the sleep command lies after the
\* last poll read and before the increment.
C12_CallOrder ==
    /\ [](branch = "transmit" =>
            /\ Len(ops) <= Len(CallOrder)
            /\ ops = SubSeq(CallOrder, 1, Len(ops)))
    /\ [](AtReturn => ops = CallOrder)
    /\ [](branch = "transmit" /\ HandedOff => sent = txData)
    /\ [][branch = "transmit" /\ Len(ops) >= 1 /\ branch' = "transmit"
            => txData' = txData]_vars
    /\ [][pollReads' # pollReads /\ pollReads' # 0 =>
            \A i \in DOMAIN ops : ops[i] # "LoRaSleepMode"]_vars
    /\ [][messageCount' # messageCount => ops[Len(ops)] = "LoRaSleepMode"]_vars

C12_Witness ==
    /\ AtReturn /\ nonzeroSeen /\ pollReads = 2 /\ ops = CallOrder
    /\ serviced >= 1

\* C13: the poll stops at the first nonzero status read: when read k is the
\* first nonzero one there were exactly k reads and k-1 delays of 10 ms,
\* 1 <= k <= 50 (k = 50 included); while polling, every read so far was zero
\* and was followed by its delay; there are never more than 50 reads.
C13_PollStopsAtFirstFlag ==
    /\ pollReads <= PollLimit
    /\ (pc = "poll" => ~nonzeroSeen /\ pollDelays = pollReads /\ pollReads = j)
    /\ (PollLeft /\ nonzeroSeen =>
            /\ pollReads \in 1..PollLimit
            /\ pollDelays = pollReads - 1
            /\ (~AtReturn => j = pollReads - 1))

C13_Witness ==
    pc = "LoRaSleepMode" /\ nonzeroSeen /\ pollReads = 50 /\ pollDelays = 49

\* The device has just been woken from SLEEP by the handler.
JustWoken == pc = "goto_start" /\ ~asleep

\* C14: disablePeripherals runs once per cycle, entered from the end of
\* either branch and followed by SLEEP; from the SLEEP statement until the
\* wake-up the converter is off, the peripheral-disable bits are set, and
\* INT1 is armed (INT1E, GIE, RB1 an input); SLEEP ends only by the handler,
\* which counts the waking edge once, and the main line resumes at start.
C14_QuiescedAndArmed ==
    /\ [](Quiet =>
            /\ adc.ADON = 0
            /\ Pmd0Off \subseteq pmd0 /\ sfr["PMD1"] = 255 /\ sfr["PMD2"] = 255
            /\ INT1E = 1 /\ GIE = 1 /\ RB1IsInput)
    /\ [][pc' # pc =>
            /\ (pc' = "disablePeripherals" =>
                    pc \in {"blink_off3", "transmitData_ledOff"} /\ branch # "none")
            /\ (pc' = "disablePeripherals_LATE" => pc = "disablePeripherals")
            /\ (pc' = "disablePeripherals_rest" => pc = "disablePeripherals_LATE")
            /\ (pc' = "SLEEP" => pc = "disablePeripherals_rest")
            /\ (pc = "SLEEP" => pc' = "goto_start" /\ asleep')
            /\ (pc = "goto_start" => pc' = "configureIO")]_vars
    /\ [][asleep =>
            /\ pc' = pc
            /\ UNCHANGED <<messageCount, txData, batt, temp, j, pmd0, adc>>
            /\ \/ asleep' /\ UNCHANGED <<tips, serviced, sfr>>
               \/ /\ ~asleep' /\ INT1F = 1 /\ INT1F' = 0
                  /\ IsSucc32(tips, tips')
                  /\ serviced' = serviced + 1
                  /\ sfr' = [sfr EXCEPT !["LATE"] = SetBit(@, 2)]]_vars

C14_Witness ==
    /\ JustWoken /\ serviced = 2 /\ edges = 2 /\ INT1F = 0
    /\ sentCount = 1 /\ branch = "skip"

\* A conversion has been started and its result has not been fetched.
Converting == pc \in {"readBattery_wait", "readTemperature_wait"}

\* C15: in every cycle, the first and those after SLEEP alike, a conversion
\* runs only with the converter's clock enabled (ADCMD clear) and ADON set;
\* the battery conversion is taken on channel 0, an analog input, against
\* the enabled fixed reference (PVCFG = 2, NVCFG = 0), the temperature
\* conversion on channel 1 against the supply (PVCFG = 0); batt only ever
\* holds a battery sample and temp a temperature sample.
C15_ConversionSetup ==
    /\ (adc.GO = 1 => Converting)
    /\ (Converting => adc.ADON = 1 /\ Bit(sfr["PMD2"], 0) = 0)
    /\ (pc = "readBattery_wait" =>
            /\ adc.CHS = 0 /\ adc.PVCFG = 2 /\ adc.NVCFG = 0
            /\ adc.FVREN = 1 /\ adc.FVRS = 1
            /\ Bit(sfr["ANSELA"], 0) = 1 /\ Bit(sfr["TRISA"], 0) = 1
            /\ (adc.GO = 0 => AdcResult \in BattValues))
    /\ (pc = "readTemperature_wait" =>
            /\ adc.CHS = 1 /\ adc.PVCFG = 0 /\ adc.NVCFG = 0
            /\ Bit(sfr["ANSELA"], 1) = 1 /\ Bit(sfr["TRISA"], 1) = 1
            /\ (adc.GO = 0 => AdcResult \in TempValues))
    /\ batt \in BattValues \cup {0}
    /\ temp \in TempValues \cup {0}

C15_Witness ==
    /\ pc = "readBattery_wait" /\ adc.GO = 0 /\ adc.CHS = 0
    /\ temp = 450 /\ serviced >= 1 /\ sentCount >= 1

\* a >= b as 32-bit numbers
Geq32(a, b) ==
    \/ Hi16(a) > Hi16(b)
    \/ Hi16(a) = Hi16(b) /\ Lo16(a) >= Lo16(b)

\* tips has passed 2^32 - 1 since the observations began.
Wrapped == ~Geq32(tips, tips0)

\* C16: as long as tips has not wrapped, the tip-count field of a frame
\* handed to the transceiver is not less than that of the frame handed over
\* before it.
C16_TipFieldMonotone ==
    [][(/\ sentCount' = sentCount + 1
        /\ sentLen = DATA_PACKET_LENGTH
        /\ ~Wrapped')
       => Geq32(TipField(sent'), TipField(sent))]_vars

\* The message-sequence field of a frame, as a counter value.
SeqField(f) == [k \in 0..3 |-> f[15 - k]]

\* C17: the sequence field of the first frame handed to the transceiver is
\* 0 and that of every later frame is one more (mod 2^32) than that of the
\* frame before it, whatever cycles were skipped, polls timed out or tips
\* were counted in between; the field is messageCount as it was before the
\* increment of that call.
C17_SequenceField ==
    /\ [][sentCount' = sentCount + 1 =>
            /\ SeqField(sent') = messageCount
            /\ messageCount' = messageCount
            /\ IF sentLen = 0
                 THEN SeqField(sent') = Zero32
                 ELSE IsSucc32(SeqField(sent), SeqField(sent'))]_vars
    /\ [](branch = "transmit" /\ HandedOff => SeqField(sent) = mcAtEntry)
    /\ [](AtReturn => IsSucc32(SeqField(sent), messageCount))

C17_Witness ==
    /\ HandedOff /\ SeqField(sent) = W(0, 1, 0, 0) /\ sentCount = 2
    /\ serviced >= 1

\* C18: while the device is halted in SLEEP the red indicator RE2 is off,
\* whatever the interleaving of the handler with the end of the cycle.
C18_DarkWhileAsleep == asleep => RED_LED = 0

====
